---------------------------- MODULE Spec2Model ----------------------------
(***************************************************************************)
(* A model of src/main.py (SmartWireguardConfig): the IP-class normalizer, *)
(* the domain reader and resolver loop, and the config patcher             *)
(* update_config, together with main() that chains them.                   *)
(*                                                                         *)
(* Text.  A Python str is modelled as a sequence of atoms.  An atom is a   *)
(* TLA+ string that stands for a run of characters that no operation of    *)
(* the program splits: "[", "Peer", "]", "AllowedIPs", " ", "=", "\n",     *)
(* a digit, a host name, an IPv4 address.  str concatenation is \o,        *)
(* startswith is a prefix test, strip removes leading and trailing         *)
(* whitespace atoms, readlines cuts after every "\n" and ''.join glues     *)
(* the lines back.  A file is a record [exists, text].                     *)
(***************************************************************************)
EXTENDS Integers, Sequences, FiniteSets, TLC

VARIABLES
    pc,                \* position in main(): normalize, read, resolve, check, patch, done, exit; lib in PatchSpec
    ip_class,          \* args.ip_class, the --class token
    domains,           \* args.domains: [isfile, readable, text]
    overwrite,         \* args.overwrite
    output,            \* args.output: "NONE" (stdout), "OUT" (a file), "TEMPLATE" (the template's own path)
    template_file,     \* the file at args.template_file: [exists, text]
    default_ip_class,  \* main's default_ip_class
    domains_with_cidr, \* main's domains_with_cidr
    idx,               \* resolve_domains: index of the next entry of the for loop
    attempts,          \* the calls of dns.resolver.resolve so far: [name, ok, answers]
    resolved_ips,      \* resolve_domains' resolved_ips
    calls,             \* the calls of update_config so far: [lines, allowed_ips, overwrite, exit, output_lines]
    output_file,       \* the file at args.output when it is "OUT": [exists, text]
    stdout,            \* what was printed to standard output
    stderr,            \* what was printed to standard error
    exit_status        \* the process's exit status, -1 while it runs

vars == <<pc, ip_class, domains, overwrite, output, template_file, default_ip_class,
          domains_with_cidr, idx, attempts, resolved_ips, calls, output_file,
          stdout, stderr, exit_status>>

-----------------------------------------------------------------------------
(* Bounds of the model. *)

MaxTokLen == 3   \* atoms in a --class token
MaxLines == 3    \* lines in a template
MaxRuns == 2     \* successive update_config runs on one file
MaxDomains == 2  \* lines in a domain file

-----------------------------------------------------------------------------
(* Python str operations on atom sequences. *)

NL == "\n"

IsSpace(c) == c \in {" ", NL}

RECURSIVE lstrip(_)
lstrip(s) == IF s # <<>> /\ IsSpace(Head(s)) THEN lstrip(Tail(s)) ELSE s

RECURSIVE rstrip(_)
rstrip(s) ==
    IF s # <<>> /\ IsSpace(s[Len(s)]) THEN rstrip(SubSeq(s, 1, Len(s) - 1)) ELSE s

strip(s) == rstrip(lstrip(s))

startswith(s, p) == Len(s) >= Len(p) /\ SubSeq(s, 1, Len(p)) = p

\* str.upper(): the lower-case atoms of the model and their upper-case forms.
UpperAtom(c) ==
    CASE c = "a" -> "A"
      [] c = "c" -> "C"
      [] c = "host" -> "HOST"
      [] c = "x" -> "X"
      [] OTHER -> c

upper(s) == [i \in 1..Len(s) |-> UpperAtom(s[i])]

\* ''.join(lines)
RECURSIVE join(_)
join(ls) == IF ls = <<>> THEN <<>> ELSE Head(ls) \o join(Tail(ls))

\* sep.join(items)
RECURSIVE joinsep(_, _)
joinsep(sep, items) ==
    IF items = <<>> THEN <<>>
    ELSE IF Len(items) = 1 THEN Head(items)
    ELSE Head(items) \o sep \o joinsep(sep, Tail(items))

\* f.readlines(): every line keeps its "\n"; the last one may have none.
RECURSIVE readlines_from(_, _)
readlines_from(text, cur) ==
    IF text = <<>> THEN (IF cur = <<>> THEN <<>> ELSE <<cur>>)
    ELSE IF Head(text) = NL
         THEN <<Append(cur, NL)>> \o readlines_from(Tail(text), <<>>)
         ELSE readlines_from(Tail(text), Append(cur, Head(text)))

readlines(text) == readlines_from(text, <<>>)

\* s.split(','): the parts between the "," atoms.
RECURSIVE split_from(_, _)
split_from(s, cur) ==
    IF s = <<>> THEN <<cur>>
    ELSE IF Head(s) = ","
         THEN <<cur>> \o split_from(Tail(s), <<>>)
         ELSE split_from(Tail(s), Append(cur, Head(s)))

split_comma(s) == split_from(s, <<>>)

\* The order of str comparison: atoms in the order of their first differing
\* character's code point.
AtomOrder ==
    <<NL, " ", "#", "+", ",", "-", "/", "0", "1", "1.1.1.1", "10.0.0.1", "2", "3",
      "4", "6", "8", ":", "=", "A", "B", "C", "HOST", "X", "[", "]", "_", "a", "a.com",
      "b.com", "c", "host", "http", "x">>

Rank(c) == CHOOSE i \in 1..Len(AtomOrder) : AtomOrder[i] = c

RECURSIVE StrLess(_, _)
StrLess(a, b) ==
    IF b = <<>> THEN FALSE
    ELSE IF a = <<>> THEN TRUE
    ELSE IF Head(a) = Head(b) THEN StrLess(Tail(a), Tail(b))
    ELSE Rank(Head(a)) < Rank(Head(b))

\* sorted(a set of str)
RECURSIVE sorted(_)
sorted(S) ==
    IF S = {} THEN <<>>
    ELSE LET m == CHOOSE x \in S : \A y \in S \ {x} : StrLess(x, y)
         IN  <<m>> \o sorted(S \ {m})

-----------------------------------------------------------------------------
(* normalize_ip_class, src/main.py lines 62-93. *)

Digits == {"0", "1", "2", "3", "4", "6", "8"}

DigitVal(c) ==
    CASE c = "0" -> 0 [] c = "1" -> 1 [] c = "2" -> 2 [] c = "3" -> 3
      [] c = "4" -> 4 [] c = "6" -> 6 [] c = "8" -> 8

\* str.isdigit(): non-empty and every character a digit.
isdigit(s) == s # <<>> /\ \A i \in 1..Len(s) : s[i] \in Digits

RECURSIVE DecimalValue(_)
DecimalValue(s) ==
    IF s = <<>> THEN 0
    ELSE 10 * DecimalValue(SubSeq(s, 1, Len(s) - 1)) + DigitVal(s[Len(s)])

\* int(str) accepts surrounding whitespace, one sign, and digits with single
\* underscores between them; anything else raises ValueError.
IsDigitPart(u) ==
    /\ u # <<>>
    /\ \A i \in 1..Len(u) : u[i] \in Digits \cup {"_"}
    /\ u[1] \in Digits
    /\ u[Len(u)] \in Digits
    /\ \A i \in 1..(Len(u) - 1) : ~(u[i] = "_" /\ u[i + 1] = "_")

Unsigned(t) == IF t # <<>> /\ Head(t) \in {"+", "-"} THEN Tail(t) ELSE t

int_ok(s) == IsDigitPart(Unsigned(strip(s)))

int_value(s) ==
    LET t == strip(s)
        n == DecimalValue(SelectSeq(Unsigned(t), LAMBDA c : c # "_"))
    IN  IF t # <<>> /\ Head(t) = "-" THEN 0 - n ELSE n

CLASS_TO_CIDR(k) ==
    CASE k = <<"A">> -> <<"/", "8">>
      [] k = <<"B">> -> <<"/", "1", "6">>
      [] k = <<"C">> -> <<"/", "2", "4">>
      [] k = <<"HOST">> -> <<"/", "3", "2">>

ClassNames == {<<"A">>, <<"B">>, <<"C">>, <<"HOST">>}

Fatal(msg) == [exit |-> 1, cidr |-> <<>>, err |-> msg]

\* The result of normalize_ip_class: exit = 0 and the returned cidr, or
\* exit = 1 (sys.exit(1)) and the message printed to stderr.
normalize_ip_class(token) ==
    LET t == upper(token)
        known == startswith(t, <<"/">>) \/ isdigit(t) \/ t \in ClassNames
        cidr == IF startswith(t, <<"/">>) THEN t
                ELSE IF isdigit(t) THEN <<"/">> \o t
                ELSE CLASS_TO_CIDR(t)
    IN  IF ~known THEN Fatal("Invalid IP class")
        ELSE IF ~int_ok(Tail(cidr)) THEN Fatal("Invalid CIDR notation")
        ELSE IF ~(0 <= int_value(Tail(cidr)) /\ int_value(Tail(cidr)) <= 32)
             THEN Fatal("Invalid CIDR notation")
        ELSE [exit |-> 0, cidr |-> cidr, err |-> ""]

-----------------------------------------------------------------------------
(* update_config, src/main.py lines 95-188. *)

None == -1  \* Python's None for an index that was not found

IsAllowedIPsLine(line) == startswith(strip(line), <<"AllowedIPs", " ", "=">>)

IsPeerLine(line) == strip(line) = <<"[", "Peer", "]">>

IsSectionLine(line) == startswith(strip(line), <<"[">>)

\* list.insert(i, x) for 0 <= i <= len(l)
list_insert(l, i, x) == SubSeq(l, 1, i) \o <<x>> \o SubSeq(l, i + 1, Len(l))

\* ', '.join(sorted(allowed_ips))
ip_str(allowed_ips) == joinsep(<<",", " ">>, sorted(allowed_ips))

\* f'AllowedIPs = {ip_str}\n'
allowed_ips_line(allowed_ips) ==
    <<"AllowedIPs", " ", "=", " ">> \o ip_str(allowed_ips) \o <<NL>>

\* A plausible slip: every AllowedIPs line moves the recorded position.
track_last(allowed_ips_index, position) == position

\* "if allowed_ips_index is None: allowed_ips_index = len(output_lines)"
track_first(allowed_ips_index, position) ==
    IF allowed_ips_index = None THEN position ELSE allowed_ips_index

\* The overwrite loop over the template's lines: AllowedIPs lines are
\* dropped, the others copied, the first drop's output position recorded.
RECURSIVE overwrite_scan(_, _, _)
overwrite_scan(lines, allowed_ips_index, output_lines) ==
    IF lines = <<>>
    THEN [allowed_ips_index |-> allowed_ips_index, output_lines |-> output_lines]
    ELSE IF IsAllowedIPsLine(Head(lines))
         THEN overwrite_scan(Tail(lines),
                             track_first(allowed_ips_index, Len(output_lines)),
                             output_lines)
         ELSE overwrite_scan(Tail(lines), allowed_ips_index,
                             Append(output_lines, Head(lines)))

\* The loop that finds the first line equal to "[Peer]" once stripped:
\* its 0-based index, or None.
find_peer(lines) ==
    IF \E i \in 1..Len(lines) : IsPeerLine(lines[i])
    THEN (CHOOSE i \in 1..Len(lines) :
              /\ IsPeerLine(lines[i])
              /\ \A j \in 1..(i - 1) : ~IsPeerLine(lines[j])) - 1
    ELSE None

\* A plausible slip: the scan for the next section starts at the [Peer] line.
scan_start_at_peer(peer_index) == peer_index

\* "range(peer_index + 1, len(output_lines))": the first index scanned
scan_start(peer_index) == peer_index + 1

\* The 0-based index of the first line from scan_start on that starts with
\* "[" once stripped, or len(output_lines).
next_section(output_lines, peer_index) ==
    LET from == scan_start(peer_index)
        hits == {i \in from..(Len(output_lines) - 1) : IsSectionLine(output_lines[i + 1])}
    IN  IF hits = {} THEN Len(output_lines)
        ELSE CHOOSE i \in hits : \A j \in hits : i <= j

NoPeer == [exit |-> 1, output_lines |-> <<>>, err |-> "No [Peer] section found"]

Patched(output_lines) == [exit |-> 0, output_lines |-> output_lines, err |-> ""]

\* The overwrite branch, lines 112-142.
overwrite_lines(lines, allowed_ips) ==
    LET scan == overwrite_scan(lines, None, <<>>)
        peer_index == find_peer(scan.output_lines)
        new == allowed_ips_line(allowed_ips)
    IN  IF scan.allowed_ips_index # None
        THEN Patched(list_insert(scan.output_lines, scan.allowed_ips_index, new))
        ELSE IF peer_index # None
             THEN Patched(list_insert(scan.output_lines, peer_index + 1, new))
             ELSE NoPeer

\* A plausible slip: append mode without a [Peer] header adds the line at
\* the end of the file instead of failing.
append_lenient(lines, allowed_ips) ==
    LET peer_index == find_peer(lines)
        new == allowed_ips_line(allowed_ips)
    IN  IF peer_index # None
        THEN Patched(list_insert(lines, next_section(lines, peer_index), new))
        ELSE Patched(Append(lines, new))

\* The append branch, lines 143-173.
append_lines(lines, allowed_ips) ==
    LET peer_index == find_peer(lines)
        new == allowed_ips_line(allowed_ips)
    IN  IF peer_index # None
        THEN Patched(list_insert(lines, next_section(lines, peer_index), new))
        ELSE NoPeer

update_config_lines(lines, allowed_ips, ow) ==
    IF ow THEN overwrite_lines(lines, allowed_ips) ELSE append_lines(lines, allowed_ips)

NoFile == [exists |-> FALSE, text |-> <<>>]

File(text) == [exists |-> TRUE, text |-> text]

\* One call update_config(template_file, allowed_ips, out, ow): the read, the
\* patch and the write.  It sets the files, the streams, the record of the
\* call and the exit status (1 where the code calls sys.exit(1), else 0:
\* main returns right after the call).
UpdateConfig(allowed_ips, out, ow) ==
    IF ~template_file.exists
    THEN /\ stderr' = Append(stderr, "Error reading template file")
         /\ calls' = Append(calls, [readable |-> FALSE, lines |-> <<>>,
                                    allowed_ips |-> allowed_ips, overwrite |-> ow,
                                    exit |-> 1, output_lines |-> <<>>])
         /\ exit_status' = 1
         /\ UNCHANGED <<template_file, output_file, stdout>>
    ELSE LET lines == readlines(template_file.text)
             r == update_config_lines(lines, allowed_ips, ow)
             updated_content == join(r.output_lines)
         IN  /\ calls' = Append(calls, [readable |-> TRUE, lines |-> lines,
                                        allowed_ips |-> allowed_ips, overwrite |-> ow,
                                        exit |-> r.exit, output_lines |-> r.output_lines])
             /\ exit_status' = r.exit
             /\ IF r.exit = 1
                THEN /\ stderr' = Append(stderr, r.err)
                     /\ UNCHANGED <<template_file, output_file, stdout>>
                ELSE /\ UNCHANGED stderr
                     /\ CASE out = "NONE" ->
                               /\ stdout' = Append(stdout, updated_content \o <<NL>>)
                               /\ UNCHANGED <<template_file, output_file>>
                          [] out = "OUT" ->
                               /\ output_file' = File(updated_content)
                               /\ stdout' = Append(stdout, <<"Updated configuration written to", NL>>)
                               /\ UNCHANGED template_file
                          [] out = "TEMPLATE" ->
                               /\ template_file' = File(updated_content)
                               /\ stdout' = Append(stdout, <<"Updated configuration written to", NL>>)
                               /\ UNCHANGED output_file

-----------------------------------------------------------------------------
(* extract_domain, read_domains_from_file and resolve_domains,              *)
(* src/main.py lines 15-60.                                                 *)

\* The 1-based index of the first atom of s that is in the set stops, or
\* Len(s) + 1.
first_of(s, stops) ==
    IF \E i \in 1..Len(s) : s[i] \in stops
    THEN CHOOSE i \in 1..Len(s) : s[i] \in stops /\ \A j \in 1..(i - 1) : s[j] \notin stops
    ELSE Len(s) + 1

\* urlparse(url).netloc: after an optional "scheme:", the text that follows
\* "//" up to the next "/", "?" or "#"; empty when there is no "//".
netloc(url) ==
    LET colon == first_of(url, {":"})
        scheme_ok == /\ colon <= Len(url)
                     /\ colon > 1
                     /\ \A i \in 1..(colon - 1) : url[i] \in {"http"}
        rest == IF scheme_ok THEN SubSeq(url, colon + 1, Len(url)) ELSE url
        after == SubSeq(rest, 3, Len(rest))
    IN  IF startswith(rest, <<"/", "/">>)
        THEN SubSeq(after, 1, first_of(after, {"/", "?", "#"}) - 1)
        ELSE <<>>

\* extract_domain, lines 35-40.  No line of main.py calls it.
extract_domain(url_or_domain) ==
    IF netloc(url_or_domain) # <<>> THEN netloc(url_or_domain) ELSE url_or_domain

\* The lines read_domains_from_file keeps, lines 51-56.
KeepLine(stripped_line) ==
    /\ stripped_line # <<>>
    /\ ~startswith(stripped_line, <<"#">>)
    /\ ~startswith(stripped_line, <<"/", "/">>)

read_domains_from_file(text) ==
    LET stripped == [i \in 1..Len(readlines(text)) |-> strip(readlines(text)[i])]
    IN  SelectSeq(stripped, KeepLine)

\* "domain = parts[0].strip()", line 24: the name handed to the resolver.
entry_domain(domain_with_cidr) == strip(split_comma(domain_with_cidr)[1])

\* "ip_class = parts[1].strip() if len(parts) > 1 else default_ip_class"
entry_class(domain_with_cidr, default) ==
    LET parts == split_comma(domain_with_cidr)
    IN  IF Len(parts) > 1 THEN strip(parts[2]) ELSE default

\* What dns.resolver.resolve may do for a name: raise, or answer with one
\* or more A records.
Answers == {{"1.1.1.1"}, {"1.1.1.1", "10.0.0.1"}}

\* A plausible slip: a lookup failure ends the run.
ResolveFailedFatal ==
    /\ stderr' = Append(stderr, "Failed to resolve domain")
    /\ pc' = "exit"
    /\ exit_status' = 1
    /\ UNCHANGED <<idx, resolved_ips>>

\* The except branch of the loop, lines 31-32: log and go on.
ResolveFailed ==
    /\ stderr' = Append(stderr, "Failed to resolve domain")
    /\ idx' = idx + 1
    /\ UNCHANGED <<pc, exit_status, resolved_ips>>

\* A plausible slip: the run goes on with no address resolved.
no_ips_unchecked(ips) == FALSE

\* "if not resolved_ips", line 216
no_ips(ips) == ips = {}

-----------------------------------------------------------------------------
(* main, src/main.py lines 190-221, one action per call it makes. *)

\* "default_ip_class = normalize_ip_class(args.ip_class)", line 203
NormalizeDefault ==
    /\ pc = "normalize"
    /\ LET r == normalize_ip_class(ip_class)
       IN  IF r.exit = 1
           THEN /\ pc' = "exit"
                /\ exit_status' = 1
                /\ stderr' = Append(stderr, r.err)
                /\ UNCHANGED default_ip_class
           ELSE /\ pc' = "read"
                /\ default_ip_class' = r.cidr
                /\ UNCHANGED <<exit_status, stderr>>
    /\ UNCHANGED <<ip_class, domains, overwrite, output, template_file,
                   domains_with_cidr, idx, attempts, resolved_ips, calls,
                   output_file, stdout>>

\* Lines 206-211: the domains argument is a file of entries or one entry.
ReadDomains ==
    /\ pc = "read"
    /\ IF domains.isfile /\ ~domains.readable
       THEN /\ pc' = "exit"
            /\ exit_status' = 1
            /\ stderr' = Append(stderr, "Error reading file")
            /\ UNCHANGED domains_with_cidr
       ELSE /\ pc' = "resolve"
            /\ domains_with_cidr' = IF domains.isfile
                                    THEN read_domains_from_file(domains.text)
                                    ELSE <<domains.text>>
            /\ UNCHANGED <<exit_status, stderr>>
    /\ UNCHANGED <<ip_class, domains, overwrite, output, template_file,
                   default_ip_class, idx, attempts, resolved_ips, calls,
                   output_file, stdout>>

\* One iteration of resolve_domains' loop, lines 21-32.
ResolveDomain ==
    /\ pc = "resolve"
    /\ idx <= Len(domains_with_cidr)
    /\ LET domain == entry_domain(domains_with_cidr[idx])
           cls == entry_class(domains_with_cidr[idx], default_ip_class)
       IN  \E ok \in BOOLEAN, answers \in Answers :
               /\ attempts' = Append(attempts,
                                     [name |-> domain, ok |-> ok,
                                      answers |-> IF ok THEN answers ELSE {}])
               /\ IF ok
                  THEN /\ resolved_ips' = resolved_ips \cup {<<a>> \o cls : a \in answers}
                       /\ idx' = idx + 1
                       /\ UNCHANGED <<pc, exit_status, stderr>>
                  ELSE ResolveFailed
    /\ UNCHANGED <<ip_class, domains, overwrite, output, template_file,
                   default_ip_class, domains_with_cidr, calls, output_file, stdout>>

\* The loop's end and main's test of the result, lines 33 and 214-218.
CheckResolved ==
    /\ pc = "resolve"
    /\ idx > Len(domains_with_cidr)
    /\ IF no_ips(resolved_ips)
       THEN /\ pc' = "exit"
            /\ exit_status' = 1
            /\ stderr' = Append(stderr, "No IPs resolved")
       ELSE /\ pc' = "patch"
            /\ UNCHANGED <<exit_status, stderr>>
    /\ UNCHANGED <<ip_class, domains, overwrite, output, template_file,
                   default_ip_class, domains_with_cidr, idx, attempts,
                   resolved_ips, calls, output_file, stdout>>

\* "update_config(args.template_file, resolved_ips, args.output, args.overwrite)"
PatchConfig ==
    /\ pc = "patch"
    /\ UpdateConfig(resolved_ips, output, overwrite)
    /\ pc' = IF exit_status' = 1 THEN "exit" ELSE "done"
    /\ UNCHANGED <<ip_class, domains, overwrite, output, default_ip_class,
                   domains_with_cidr, idx, attempts, resolved_ips>>

\* update_config run on the file a previous run wrote: the output path is
\* the template's own path, so each run reads what the last one wrote.
Repatch ==
    /\ pc = "lib"
    /\ Len(calls) < MaxRuns
    /\ exit_status # 1
    /\ \E allowed_ips \in (SUBSET {<<"1.1.1.1", "/", "3", "2">>, <<"10.0.0.1", "/", "8">>}) \ {{}},
          ow \in BOOLEAN :
           UpdateConfig(allowed_ips, "TEMPLATE", ow)
    /\ UNCHANGED <<pc, ip_class, domains, overwrite, output, default_ip_class,
                   domains_with_cidr, idx, attempts, resolved_ips>>

-----------------------------------------------------------------------------
(* Inputs. *)

SeqsUpTo(S, n) == UNION {[1..k -> S] : k \in 0..n}

\* --class tokens
TokenAtoms == {"/", "0", "2", "3", "+", "-", " ", "_", "A", "B", "C", "HOST", "c", "host", "x"}

Tokens == SeqsUpTo(TokenAtoms, MaxTokLen)

\* Template lines
PeerLine == <<"[", "Peer", "]", NL>>
OldAllowedLine == <<" ", "AllowedIPs", " ", "=", " ", "9.9.9.9", "/", "3", "2", NL>>
InterfaceLine == <<"[", "Interface", "]", NL>>
KeyLine == <<"PublicKey", " ", "=", " ", "X", NL>>

TemplateLines == {PeerLine, OldAllowedLine, InterfaceLine, KeyLine}

\* Texts of up to MaxLines lines, the last one with or without its "\n".
TemplateTexts ==
    LET whole == {join(ls) : ls \in SeqsUpTo(TemplateLines, MaxLines)}
    IN  whole \cup {SubSeq(t, 1, Len(t) - 1) : t \in whole \ {<<>>}}

\* Domain entries and the other lines of a domain file
Entries ==
    { <<"a.com">>,
      <<" ", "b.com", " ", ",", "/", "2", "4">>,
      <<"b.com", ",", " ", "2", "4">>,
      <<"http", ":", "/", "/", "a.com", "/", "x">> }

DomainFileLines ==
    {e \o <<NL>> : e \in Entries} \cup {<<"#", " ", "x", NL>>}

DomainArgs ==
    {[isfile |-> FALSE, readable |-> TRUE, text |-> e] : e \in Entries}
    \cup {[isfile |-> TRUE, readable |-> TRUE, text |-> join(ls)] :
              ls \in SeqsUpTo(DomainFileLines, MaxDomains)}
    \cup {[isfile |-> TRUE, readable |-> FALSE, text |-> <<>>]}

MainClasses == {<<"3", "2">>, <<"c">>, <<"/", "4", "0">>, <<"x">>}

MainTemplates ==
    { NoFile,
      File(InterfaceLine \o PeerLine \o KeyLine),
      File(InterfaceLine \o OldAllowedLine \o KeyLine) }

-----------------------------------------------------------------------------
(* Specifications. *)

Fresh ==
    /\ default_ip_class = <<>>
    /\ domains_with_cidr = <<>>
    /\ idx = 1
    /\ attempts = <<>>
    /\ resolved_ips = {}
    /\ calls = <<>>
    /\ output_file = NoFile
    /\ stdout = <<>>
    /\ stderr = <<>>
    /\ exit_status = -1

\* A run of main().
Init ==
    /\ pc = "normalize"
    /\ ip_class \in MainClasses
    /\ domains \in DomainArgs
    /\ overwrite \in BOOLEAN
    /\ output \in {"NONE", "OUT"}
    /\ template_file \in MainTemplates
    /\ Fresh

Next == NormalizeDefault \/ ReadDomains \/ ResolveDomain \/ CheckResolved \/ PatchConfig

Spec == Init /\ [][Next]_vars

\* normalize_ip_class on every token of the bounded alphabet.
NormInit ==
    /\ pc = "normalize"
    /\ ip_class \in Tokens
    /\ domains = [isfile |-> FALSE, readable |-> TRUE, text |-> <<"a.com">>]
    /\ overwrite = FALSE
    /\ output = "NONE"
    /\ template_file = NoFile
    /\ Fresh

NormNext == NormalizeDefault

NormSpec == NormInit /\ [][NormNext]_vars

\* update_config run up to MaxRuns times in succession on one file.
PatchInit == 
    /\ pc = "lib"
    /\ ip_class = <<>>
    /\ domains = [isfile |-> FALSE, readable |-> TRUE, text |-> <<>>]
    /\ overwrite = FALSE
    /\ output = "TEMPLATE"
    /\ template_file \in {File(t) : t \in TemplateTexts}
    /\ Fresh

PatchNext == Repatch

PatchSpec == PatchInit /\ [][PatchNext]_vars

-----------------------------------------------------------------------------
(* Vocabulary of the properties. *)

HasPeer(lines) == \E i \in 1..Len(lines) : IsPeerLine(lines[i])

HasAllowed(lines) == \E i \in 1..Len(lines) : IsAllowedIPsLine(lines[i])

\* 1-based index of the first line of lines that satisfies Test
FirstIndex(lines, Test(_)) ==
    CHOOSE i \in 1..Len(lines) : Test(lines[i]) /\ \A j \in 1..(i - 1) : ~Test(lines[j])

NotAllowed(line) == ~IsAllowedIPsLine(line)

AllowedLinesOf(lines) == SelectSeq(lines, IsAllowedIPsLine)

RemoveAt(s, i) == SubSeq(s, 1, i - 1) \o SubSeq(s, i + 1, Len(s))

InsertBefore(s, i, x) == SubSeq(s, 1, i - 1) \o <<x>> \o SubSeq(s, i, Len(s))

\* 1-based index of the first section header after line p, or Len + 1
Boundary(lines, p) ==
    IF \E i \in (p + 1)..Len(lines) : IsSectionLine(lines[i])
    THEN CHOOSE i \in (p + 1)..Len(lines) :
             IsSectionLine(lines[i]) /\ \A j \in (p + 1)..(i - 1) : ~IsSectionLine(lines[j])
    ELSE Len(lines) + 1

\* "/N" with N written in digits only and 0 <= N <= 32
IsValidCidr(s) ==
    /\ Len(s) >= 2
    /\ s[1] = "/"
    /\ isdigit(Tail(s))
    /\ DecimalValue(Tail(s)) <= 32

Written == output_file.exists \/ stdout # <<>>

-----------------------------------------------------------------------------
(* Properties of update_config, checked under PatchSpec. *)

\* C1: an overwrite call on a template with an AllowedIPs line or a [Peer]
\* line succeeds; its output is the template's non-AllowedIPs lines in their
\* order plus one new AllowedIPs line, which sits at the index of the first
\* AllowedIPs line among the kept lines (the number of kept lines before it)
\* or, without any AllowedIPs line, right after the first [Peer] line.
C1_OverwriteShape ==
    \A n \in 1..Len(calls) :
        LET c == calls[n]
            kept == SelectSeq(c.lines, NotAllowed)
            pos == IF HasAllowed(c.lines)
                   THEN FirstIndex(c.lines, IsAllowedIPsLine)
                   ELSE FirstIndex(c.lines, IsPeerLine) + 1
        IN  (c.overwrite /\ (HasAllowed(c.lines) \/ HasPeer(c.lines))) =>
                /\ c.exit = 0
                /\ Len(c.output_lines) = Len(kept) + 1
                /\ c.output_lines[pos] = allowed_ips_line(c.allowed_ips)
                /\ IsAllowedIPsLine(c.output_lines[pos])
                /\ RemoveAt(c.output_lines, pos) = kept

\* An overwrite call that dropped two AllowedIPs lines, the first of them
\* not at the top and a kept line between them.
C1_Witness ==
    \E n \in 1..Len(calls) :
        /\ calls[n].overwrite
        /\ calls[n].exit = 0
        /\ Len(AllowedLinesOf(calls[n].lines)) >= 2
        /\ \E i, j, k \in 1..Len(calls[n].lines) :
               /\ i < j /\ j < k
               /\ IsAllowedIPsLine(calls[n].lines[i])
               /\ ~IsAllowedIPsLine(calls[n].lines[j])
               /\ IsAllowedIPsLine(calls[n].lines[k])

\* C2: an append call on a template with a [Peer] line succeeds; its output
\* is the template's lines, all kept and in order, with the new AllowedIPs
\* line inserted before the first line after the first [Peer] that starts
\* with "[", or at the end when there is none.
C2_AppendShape ==
    \A n \in 1..Len(calls) :
        LET c == calls[n]
            b == Boundary(c.lines, FirstIndex(c.lines, IsPeerLine))
        IN  (~c.overwrite /\ HasPeer(c.lines)) =>
                /\ c.exit = 0
                /\ c.output_lines = InsertBefore(c.lines, b, allowed_ips_line(c.allowed_ips))

\* An append call on a template whose [Peer] line is directly followed by
\* another section header: the new line lies between the two.
C2_Witness ==
    \E n \in 1..Len(calls) :
        LET c == calls[n]
        IN  /\ ~c.overwrite
            /\ c.exit = 0
            /\ HasPeer(c.lines)
            /\ LET p == FirstIndex(c.lines, IsPeerLine)
               IN  /\ p < Len(c.lines)
                   /\ IsSectionLine(c.lines[p + 1])
                   /\ c.output_lines[p] = c.lines[p]
                   /\ IsAllowedIPsLine(c.output_lines[p + 1])
                   /\ c.output_lines[p + 2] = c.lines[p + 1]

\* C3: when an overwrite call that succeeded is followed by an overwrite
\* call with the same IP set on the file it wrote, the second call succeeds
\* and writes the same file, which has exactly one AllowedIPs line.
C3_OverwriteIdempotent ==
    \A n \in 1..(Len(calls) - 1) :
        (/\ calls[n].overwrite
         /\ calls[n + 1].overwrite
         /\ calls[n].exit = 0
         /\ calls[n + 1].allowed_ips = calls[n].allowed_ips) =>
            /\ calls[n + 1].exit = 0
            /\ join(calls[n + 1].output_lines) = join(calls[n].output_lines)
            /\ Len(AllowedLinesOf(readlines(join(calls[n + 1].output_lines)))) = 1

\* C4: N append calls in succession with pairwise disjoint IP sets, from a
\* template with a [Peer] line and no AllowedIPs line, all succeed; the file
\* then holds exactly N AllowedIPs lines, pairwise distinct, the lines of
\* S1..SN in that order, all after the first [Peer] line and before the next
\* line that starts with "[".
C4_AppendAccumulates ==
    LET N == Len(calls)
        lines == readlines(template_file.text)
        p == FirstIndex(lines, IsPeerLine)
        b == Boundary(lines, p)
    IN  (/\ N >= 1
         /\ \A n \in 1..N : ~calls[n].overwrite
         /\ \A m, n \in 1..N : m # n => calls[m].allowed_ips \cap calls[n].allowed_ips = {}
         /\ HasPeer(calls[1].lines)
         /\ ~HasAllowed(calls[1].lines)) =>
            /\ \A n \in 1..N : calls[n].exit = 0
            /\ AllowedLinesOf(lines) = [n \in 1..N |-> allowed_ips_line(calls[n].allowed_ips)]
            /\ \A m, n \in 1..N : m # n =>
                   allowed_ips_line(calls[m].allowed_ips) # allowed_ips_line(calls[n].allowed_ips)
            /\ HasPeer(lines)
            /\ \A i \in 1..Len(lines) : IsAllowedIPsLine(lines[i]) => (p < i /\ i < b)

\* C5 as stated: every call on a template without a [Peer] line fails.
C5_NoPeerAlwaysFatal ==
    \A n \in 1..Len(calls) :
        (calls[n].readable /\ ~HasPeer(calls[n].lines)) => calls[n].exit = 1

\* C5 as amended: a call on a template without a [Peer] line fails, with
\* nothing written, in append mode, and in overwrite mode when the template
\* has no AllowedIPs line either; an overwrite call on a template with an
\* AllowedIPs line succeeds without any [Peer] line.
C5_NoPeerFatalUnlessAnchored ==
    \A n \in 1..Len(calls) :
        LET c == calls[n]
        IN  (c.readable /\ ~HasPeer(c.lines)) =>
                /\ c.exit = 1 <=> (~c.overwrite \/ ~HasAllowed(c.lines))
                /\ c.exit = 1 =>
                       /\ n = Len(calls)
                       /\ exit_status = 1
                       /\ template_file.text = join(c.lines)
                       /\ Len(stdout) = n - 1
                       /\ stderr # <<>>

\* An overwrite call without a [Peer] line that succeeded on its AllowedIPs
\* line, followed by an append call on the result, which failed.
C5_Witness ==
    /\ Len(calls) = 2
    /\ ~HasPeer(calls[1].lines)
    /\ calls[1].overwrite
    /\ calls[1].exit = 0
    /\ ~calls[2].overwrite
    /\ ~HasPeer(calls[2].lines)
    /\ calls[2].exit = 1
    /\ exit_status = 1

-----------------------------------------------------------------------------
(* Properties of normalize_ip_class, checked under NormSpec. *)

\* C7: once normalize_ip_class has run on the token, case ignored: A, B, C,
\* HOST give "/8", "/16", "/24", "/32"; digits N with 0 <= N <= 32 give "/N";
\* "/" followed by digits N with 0 <= N <= 32 gives the token; every other
\* token ends the run with exit status 1.
C7_NormalizeTable ==
    LET t == upper(ip_class)
        returns(cidr) == pc = "read" /\ default_ip_class = cidr /\ exit_status = -1
    IN  pc # "normalize" =>
            CASE t = <<"A">> -> returns(<<"/", "8">>)
              [] t = <<"B">> -> returns(<<"/", "1", "6">>)
              [] t = <<"C">> -> returns(<<"/", "2", "4">>)
              [] t = <<"HOST">> -> returns(<<"/", "3", "2">>)
              [] isdigit(t) /\ DecimalValue(t) <= 32 -> returns(<<"/">> \o t)
              [] IsValidCidr(t) -> returns(t)
              [] OTHER -> pc = "exit" /\ exit_status = 1

-----------------------------------------------------------------------------
(* Properties of a run of main, checked under Spec. *)

\* C6: every formatted IP in the set ends in a validated suffix "/N",
\* 0 <= N <= 32, whether it came from the default class or from an entry's
\* own ",cidr".
C6_ValidSuffix ==
    \A ip \in resolved_ips : IsValidCidr(Tail(ip))

\* C8: the name handed to the resolver for each entry is the host of a
\* URL-style entry and the entry's domain itself otherwise.
C8_ResolvesHost ==
    \A i \in 1..Len(attempts) :
        attempts[i].name = extract_domain(entry_domain(domains_with_cidr[i]))

ClassOk == normalize_ip_class(ip_class).exit = 0

DomainsRead == ~(domains.isfile /\ ~domains.readable)

\* C9: the entries are attempted once each, in list order; a failed lookup
\* does not end the run; once the loop is over every entry was attempted and
\* the addresses of every entry that resolved are in the set, each with the
\* entry's suffix; the run exits with status 1 before update_config if and
\* only if the set is empty, so update_config never gets an empty set.
C9_ResolutionNeverFatal ==
    /\ Len(attempts) = idx - 1
    /\ Len(attempts) <= Len(domains_with_cidr)
    /\ \A i \in 1..Len(attempts) :
           /\ attempts[i].name = entry_domain(domains_with_cidr[i])
           /\ attempts[i].ok =>
                  \A a \in attempts[i].answers :
                      <<a>> \o entry_class(domains_with_cidr[i], default_ip_class)
                          \in resolved_ips
    /\ (pc = "resolve" /\ attempts # <<>>) => exit_status = -1
    /\ (pc \in {"patch", "done"} \/ (pc = "exit" /\ ClassOk /\ DomainsRead)) =>
           Len(attempts) = Len(domains_with_cidr)
    /\ (pc = "exit" /\ ClassOk /\ DomainsRead) =>
           (calls = <<>> <=> resolved_ips = {})
    /\ pc \in {"patch", "done"} => resolved_ips # {}
    /\ \A n \in 1..Len(calls) : calls[n].allowed_ips # {}

\* A finished run whose first lookup failed and whose second one succeeded.
C9_Witness ==
    /\ pc = "done"
    /\ Len(attempts) >= 2
    /\ ~attempts[1].ok
    /\ attempts[2].ok
    /\ Len(calls) = 1
    /\ calls[1].allowed_ips = resolved_ips

\* C10: config text is written only by a run whose default class passed
\* validation, whose IP set is not empty and whose template is readable and
\* has the patcher's anchor; a run that ends in an error has written nothing
\* and exits with status 1; an invalid default class ends the run before any
\* lookup.
C10_NoOutputOnError ==
    /\ Written =>
           /\ pc = "done"
           /\ exit_status = 0
           /\ IsValidCidr(default_ip_class)
           /\ resolved_ips # {}
           /\ template_file.exists
           /\ LET lines == readlines(template_file.text)
              IN  HasPeer(lines) \/ (overwrite /\ HasAllowed(lines))
    /\ pc = "exit" => (~Written /\ exit_status = 1 /\ stderr # <<>>)
    /\ ~ClassOk => (attempts = <<>> /\ calls = <<>> /\ pc \in {"normalize", "exit"})
    /\ pc = "done" => Written

\* A run that resolved addresses and then failed on a template without the
\* anchor: nothing written, exit status 1.
C10_Witness ==
    /\ pc = "exit"
    /\ resolved_ips # {}
    /\ Len(calls) = 1
    /\ calls[1].readable
    /\ calls[1].exit = 1
    /\ ~Written
    /\ exit_status = 1

=============================================================================
